---- MODULE Spec2Model ----
(***************************************************************************)
(* CompetitiveKnowledgeGraph (src/knowledge_graph.py): a networkx          *)
(* MultiDiGraph of typed entities, the relationship history kept beside    *)
(* it, the queries over it and the text parser that fills it.              *)
(*                                                                         *)
(* A Python dict is a function from its keys (strings) to its values; a    *)
(* Python list is a sequence; a Python str is a string, read character by  *)
(* character with Len, SubSeq and \o.  datetime.now() is the variable      *)
(* clock, which every mutating call advances.                              *)
(***************************************************************************)
EXTENDS Integers, Sequences, FiniteSets, TLC

VARIABLES
    graph,                 \* self.graph
    entity_attributes,     \* self.entity_attributes
    relationship_history,  \* self.relationship_history
    clock,                 \* datetime.now()
    ret,                   \* the last call: its name, arguments and outcome
    parse                  \* the locals of a running parse_entity_extraction

vars == <<graph, entity_attributes, relationship_history, clock, ret, parse>>

\* ------------------------------------------------------------------ bounds
\* Mutating calls made on one graph object.
MaxOps == 3
\* Mutating calls in the path-enumeration specification.
MaxPathOps == 3
\* Steps taken before the last parse_entity_extraction call begins.
MaxParseOps == 3

\* ------------------------------------------------------------------ dicts
\* None; no text of the model holds this string
None == "<None>"

EmptyDict == <<>>

\* dict.get(k), with None for a missing key
Get(d, k) == IF k \in DOMAIN d THEN d[k] ELSE None

\* dict.update(e): the keys of e are set, the other keys of d stay
Update(d, e) ==
    [k \in DOMAIN d \cup DOMAIN e |-> IF k \in DOMAIN e THEN e[k] ELSE d[k]]

\* membership in a Python list
InSeq(x, s) == \E i \in 1..Len(s) : s[i] = x

SeqToSet(s) == {s[i] : i \in 1..Len(s)}

\* ---------------------------------------------------------------- str
\* the i-th character of s
Char(s, i) == SubSeq(s, i, i)

UpperLetters == "ABCDEFGHIJKLMNOPQRSTUVWXYZ"
LowerLetters == "abcdefghijklmnopqrstuvwxyz"

\* each lower-case letter's upper-case letter, and the other way round
UpperOf ==
    [c \in {Char(LowerLetters, i) : i \in 1..Len(LowerLetters)} |->
        Char(UpperLetters,
             CHOOSE i \in 1..Len(LowerLetters) : Char(LowerLetters, i) = c)]

LowerOf ==
    [c \in {Char(UpperLetters, i) : i \in 1..Len(UpperLetters)} |->
        Char(LowerLetters,
             CHOOSE i \in 1..Len(UpperLetters) : Char(UpperLetters, i) = c)]

\* str.upper()
RECURSIVE Upper(_)
Upper(s) ==
    IF s = "" THEN ""
    ELSE LET c == Char(s, 1)
         IN  (IF c \in DOMAIN UpperOf THEN UpperOf[c] ELSE c)
             \o Upper(SubSeq(s, 2, Len(s)))

\* str.lower()
RECURSIVE Lower(_)
Lower(s) ==
    IF s = "" THEN ""
    ELSE LET c == Char(s, 1)
         IN  (IF c \in DOMAIN LowerOf THEN LowerOf[c] ELSE c)
             \o Lower(SubSeq(s, 2, Len(s)))

\* the characters str.strip() and str.split() take as white space
IsSpace(c) == c \in {" ", "\t", "\r", "\n"}

RECURSIVE LStrip(_)
LStrip(s) ==
    IF s # "" /\ IsSpace(Char(s, 1)) THEN LStrip(SubSeq(s, 2, Len(s))) ELSE s

RECURSIVE RStrip(_)
RStrip(s) ==
    IF s # "" /\ IsSpace(Char(s, Len(s)))
    THEN RStrip(SubSeq(s, 1, Len(s) - 1))
    ELSE s

\* str.strip()
Strip(s) == RStrip(LStrip(s))

\* str.startswith(prefix)
StartsWith(s, prefix) ==
    Len(s) >= Len(prefix) /\ SubSeq(s, 1, Len(prefix)) = prefix

\* str.find(sub, i) counted from 1: the first place at or after i where sub
\* begins, 0 if there is none
RECURSIVE Find(_, _, _)
Find(s, sub, i) ==
    IF i + Len(sub) - 1 > Len(s) THEN 0
    ELSE IF SubSeq(s, i, i + Len(sub) - 1) = sub THEN i
    ELSE Find(s, sub, i + 1)

\* `sub in s`
Contains(s, sub) == Find(s, sub, 1) # 0

\* str.split(sep, maxsplit), maxsplit = -1 for no limit
RECURSIVE Split(_, _, _)
Split(s, sep, maxsplit) ==
    LET i == Find(s, sep, 1)
    IN  IF maxsplit = 0 \/ i = 0 THEN <<s>>
        ELSE <<SubSeq(s, 1, i - 1)>>
             \o Split(SubSeq(s, i + Len(sep), Len(s)), sep, maxsplit - 1)

\* len(attrs_str) where len(attrs_str.split()) is meant
CharCount(s) == Len(s)

\* len(s.split()): the number of runs of characters that are no white space
RECURSIVE WordCount(_)
WordCount(s) ==
    IF s = "" THEN 0
    ELSE IF IsSpace(Char(s, 1)) THEN WordCount(SubSeq(s, 2, Len(s)))
    ELSE IF Len(s) = 1 \/ IsSpace(Char(s, 2))
         THEN 1 + WordCount(SubSeq(s, 2, Len(s)))
         ELSE WordCount(SubSeq(s, 2, Len(s)))

\* ------------------------------------------------- networkx MultiDiGraph
\* node: the node names in insertion order; attr: each node's attribute
\* dict; edges: the edges in insertion order, each with its endpoints, its
\* key among the edges of the same ordered pair, and its attribute dict.
EmptyGraph == [node |-> <<>>, attr |-> <<>>, edges |-> <<>>]

\* `n in self.graph`
HasNode(g, n) == InSeq(n, g.node)

\* MultiDiGraph.add_node(n, **attrs): a new node gets the attributes, an
\* existing node's attribute dict is updated with them.
AddNode(g, n, attrs) ==
    IF HasNode(g, n)
    THEN [g EXCEPT !.attr[n] = Update(@, attrs)]
    ELSE [g EXCEPT !.node = Append(@, n), !.attr = @ @@ (n :> attrs)]

\* the edges u -> v, in insertion order (get_edge_data(u, v).values())
EdgesBetween(g, u, v) ==
    SelectSeq(g.edges, LAMBDA e : e.u = u /\ e.v = v)

\* add_edge of a graph that keeps one edge per ordered pair (nx.DiGraph):
\* a second edge u -> v updates the first
AddEdgeSingle(g, u, v, attrs) ==
    LET g1 == IF HasNode(g, u) THEN g ELSE AddNode(g, u, EmptyDict)
        g2 == IF HasNode(g1, v) THEN g1 ELSE AddNode(g1, v, EmptyDict)
    IN  IF EdgesBetween(g, u, v) = <<>>
        THEN [g2 EXCEPT !.edges =
                 Append(@, [u |-> u, v |-> v, key |-> 0, attrs |-> attrs])]
        ELSE [g2 EXCEPT !.edges =
                 [i \in 1..Len(@) |->
                     IF @[i].u = u /\ @[i].v = v
                     THEN [@[i] EXCEPT !.attrs = Update(@, attrs)]
                     ELSE @[i]]]

\* MultiDiGraph.add_edge(u, v, **attrs): missing endpoints become nodes
\* without attributes, and the edge is stored under a fresh key.
AddEdge(g, u, v, attrs) ==
    LET g1 == IF HasNode(g, u) THEN g ELSE AddNode(g, u, EmptyDict)
        g2 == IF HasNode(g1, v) THEN g1 ELSE AddNode(g1, v, EmptyDict)
    IN  [g2 EXCEPT !.edges =
            Append(@, [u |-> u, v |-> v,
                       key |-> Len(EdgesBetween(g, u, v)),
                       attrs |-> attrs])]

\* the first i edges' targets out of n, each once, in order of first edge
RECURSIVE SuccUpTo(_, _, _)
SuccUpTo(g, n, i) ==
    IF i = 0 THEN <<>>
    ELSE LET rest == SuccUpTo(g, n, i - 1)
             e == g.edges[i]
         IN  IF e.u = n /\ ~InSeq(e.v, rest) THEN Append(rest, e.v) ELSE rest

\* graph.successors(n), n a node: adjacency order
Successors(g, n) == SuccUpTo(g, n, Len(g.edges))

RECURSIVE PredUpTo(_, _, _)
PredUpTo(g, n, i) ==
    IF i = 0 THEN <<>>
    ELSE LET rest == PredUpTo(g, n, i - 1)
             e == g.edges[i]
         IN  IF e.v = n /\ ~InSeq(e.u, rest) THEN Append(rest, e.u) ELSE rest

\* graph.predecessors(n), n a node
Predecessors(g, n) == PredUpTo(g, n, Len(g.edges))

\* ------------------------------------------------------------ mutations
\* The object's three fields as one value, so that a method that calls
\* another method works on the state the callee left.
Self == [graph |-> graph, entity_attributes |-> entity_attributes,
         relationship_history |-> relationship_history]

\* entity_attributes[name] = attributes
SetEntityAttributes(ea, name, attributes) ==
    [n \in DOMAIN ea \cup {name} |-> IF n = name THEN attributes ELSE ea[n]]

\* add_company: stamp the attributes, add_node, remember the attributes
add_company(self, company_name, attributes, now) ==
    LET a == Update(attributes, [added_at |-> now, entity_type |-> "company"])
    IN  [self EXCEPT
            !.graph = AddNode(@, company_name, a),
            !.entity_attributes = SetEntityAttributes(@, company_name, a)]

\* add_relationship without its history record
add_relationship_unlogged(self, source, target, relationship_type, attributes, now) ==
    [self EXCEPT
        !.graph = AddEdge(@, source, target,
                      Update(attributes, [relationship_type |-> relationship_type,
                                          added_at |-> now]))]

\* add_relationship: stamp the attributes, add_edge, append to the history
add_relationship(self, source, target, relationship_type, attributes, now) ==
    LET a == Update(attributes,
                    [relationship_type |-> relationship_type, added_at |-> now])
    IN  [self EXCEPT
            !.graph = AddEdge(@, source, target, a),
            !.relationship_history =
                Append(@, [source |-> source, target |-> target,
                           type |-> relationship_type, timestamp |-> now])]

\* add_product: the product node, then the 'produces' edge from company
add_product(self, product_name, company, attributes, now) ==
    LET a == Update(attributes, [entity_type |-> "product", added_at |-> now])
        s1 == [self EXCEPT
                  !.graph = AddNode(@, product_name, a),
                  !.entity_attributes = SetEntityAttributes(@, product_name, a)]
    IN  add_relationship(s1, company, product_name, "produces",
            [description |-> company \o " produces " \o product_name], now)

\* add_market
add_market(self, market_name, attributes, now) ==
    LET a == Update(attributes, [entity_type |-> "market", added_at |-> now])
    IN  [self EXCEPT
            !.graph = AddNode(@, market_name, a),
            !.entity_attributes = SetEntityAttributes(@, market_name, a)]

\* add_person: the person node, then the 'works_at' edge to company
add_person(self, person_name, company, role, attributes, now) ==
    LET a == Update(attributes,
                    [entity_type |-> "person", role |-> role, added_at |-> now])
        s1 == [self EXCEPT
                  !.graph = AddNode(@, person_name, a),
                  !.entity_attributes = SetEntityAttributes(@, person_name, a)]
    IN  add_relationship(s1, person_name, company, "works_at",
            [role |-> role,
             description |->
                 person_name \o " is " \o role \o " at " \o company], now)

\* import_from_analysis: both anchors are (re-)added and linked; the
\* keyword scan that follows changes nothing
import_from_analysis(self, user_company, competitor, now) ==
    LET s1 == add_company(self, user_company, [is_user_company |-> "True"], now)
        s2 == add_company(s1, competitor, [is_competitor |-> "True"], now)
    IN  add_relationship(s2, user_company, competitor, "competes_with",
            [description |-> user_company \o " competes with " \o competitor],
            now)

\* --------------------------------------------------------------- eval
\* eval('{' + s + '}') for the attribute strings of the model's texts:
\*   nothing                   -> the empty dict
\*   'k': 'v', 'k2': 'v2' ...  -> that dict (single-quoted strings)
\*   one integer, one 'string' -> a set with that element
\*   anything else of the model's texts (k=v pairs, words, prose) raises
\*   SyntaxError or NameError.
Evaluated(kind, value) == [kind |-> kind, value |-> value]

\* the 'k': 'v' items of s, or not ok when s is not made of them
RECURSIVE QuotedPairs(_, _)
QuotedPairs(s, acc) ==
    LET bad == [ok |-> FALSE, value |-> EmptyDict]
        j == Find(s, "'", 2)
        r1 == LStrip(SubSeq(s, j + 1, Len(s)))
        r2 == LStrip(SubSeq(r1, 2, Len(r1)))
        j2 == Find(r2, "'", 2)
        r3 == LStrip(SubSeq(r2, j2 + 1, Len(r2)))
        r4 == LStrip(SubSeq(r3, 2, Len(r3)))
        d == Update(acc, SubSeq(s, 2, j - 1) :> SubSeq(r2, 2, j2 - 1))
    IN  IF ~StartsWith(s, "'") \/ j = 0 THEN bad
        ELSE IF ~StartsWith(r1, ":") THEN bad
        ELSE IF ~StartsWith(r2, "'") \/ j2 = 0 THEN bad
        ELSE IF r3 = "" THEN [ok |-> TRUE, value |-> d]
        ELSE IF ~StartsWith(r3, ",") THEN bad
        ELSE IF r4 = "" THEN [ok |-> TRUE, value |-> d]
        ELSE QuotedPairs(r4, d)

IsInteger(s) ==
    /\ s # ""
    /\ \A i \in 1..Len(s) : Contains("0123456789", Char(s, i))
    /\ (Len(s) > 1 => Char(s, 1) # "0")

IsQuoted(s) ==
    /\ Len(s) >= 2 /\ StartsWith(s, "'")
    /\ Find(s, "'", 2) = Len(s)

Eval(s) ==
    LET t == Strip(s)
        pairs == QuotedPairs(t, EmptyDict)
    IN  IF t = "" THEN Evaluated("dict", EmptyDict)
        ELSE IF pairs.ok THEN Evaluated("dict", pairs.value)
        ELSE IF IsInteger(t) THEN Evaluated("set", {t})
        ELSE IF IsQuoted(t) THEN Evaluated("set", {SubSeq(t, 2, Len(t) - 1)})
        ELSE Evaluated("error", {})

\* ------------------------------------------- parse_entity_extraction
section_markers ==
    <<"COMPANIES:", "PRODUCTS:", "MARKETS:", "PEOPLE:", "RELATIONSHIPS:">>

\* marker.upper() of each marker
UpperMarkers == [m \in 1..Len(section_markers) |-> Upper(section_markers[m])]

\* the order in which the sections are processed
SectionOrder == <<"COMPANIES", "PRODUCTS", "MARKETS", "PEOPLE", "RELATIONSHIPS">>

\* a bootstrap that links the anchors in every call
BootstrapAlwaysLinks(self, user_company, competitor, now) ==
    LET s1 == IF ~HasNode(self.graph, user_company)
              THEN add_company(self, user_company, [is_user_company |-> "True"], now)
              ELSE self
        s2 == IF ~HasNode(s1.graph, competitor)
              THEN add_company(s1, competitor, [is_competitor |-> "True"], now)
              ELSE s1
    IN  add_relationship(s2, user_company, competitor, "competes_with",
                         [identified_at |-> now], now)

\* the bootstrap: both anchors exist afterwards, and a competitor that was
\* no node is linked to the user company
Bootstrap(self, user_company, competitor, now) ==
    LET s1 == IF ~HasNode(self.graph, user_company)
              THEN add_company(self, user_company, [is_user_company |-> "True"], now)
              ELSE self
    IN  IF ~HasNode(s1.graph, competitor)
        THEN add_relationship(
                 add_company(s1, competitor, [is_competitor |-> "True"], now),
                 user_company, competitor, "competes_with",
                 [identified_at |-> now], now)
        ELSE s1

\* [line.strip() for line in extracted_text.split('\n') if line.strip()]
RECURSIVE StripNonEmpty(_)
StripNonEmpty(raw) ==
    IF raw = <<>> THEN <<>>
    ELSE (IF Strip(Head(raw)) # "" THEN <<Strip(Head(raw))>> ELSE <<>>)
         \o StripNonEmpty(Tail(raw))

NormalizedLines(extracted_text) ==
    StripNonEmpty(Split(extracted_text, "\n", -1))

\* the first marker the line begins with, whatever its case; 0 for none
MarkerOf(line) ==
    LET upper == Upper(line)
        hits == {m \in 1..Len(section_markers) :
                    StartsWith(upper, UpperMarkers[m])}
    IN  IF hits = {} THEN 0 ELSE CHOOSE m \in hits : \A n \in hits : m <= n

\* the loop over the lines: st holds sections, current_section ("" for
\* None) and current_content
RECURSIVE SplitLoop(_, _)
SplitLoop(lines, st) ==
    IF lines = <<>> THEN st
    ELSE LET line == Head(lines)
             m == MarkerOf(line)
             flushed == IF st.current_section # "" /\ st.current_content # <<>>
                        THEN Update(st.sections,
                                    st.current_section :> st.current_content)
                        ELSE st.sections
         IN  SplitLoop(Tail(lines),
                 IF m # 0
                 THEN [sections |-> flushed,
                       current_section |->
                           SubSeq(section_markers[m], 1, Len(section_markers[m]) - 1),
                       current_content |-> <<>>]
                 ELSE IF st.current_section # ""
                 THEN [st EXCEPT !.current_content = Append(@, line)]
                 ELSE st)

\* sections: each kind that was opened with content, with the lines of its
\* last such occurrence
SplitSections(extracted_text) ==
    LET st == SplitLoop(NormalizedLines(extracted_text),
                        [sections |-> EmptyDict, current_section |-> "",
                         current_content |-> <<>>])
    IN  IF st.current_section # "" /\ st.current_content # <<>>
        THEN Update(st.sections, st.current_section :> st.current_content)
        ELSE st.sections

\* the fallback of the Companies section: key=value pairs, and the whole
\* string as the description for a piece without '='
RECURSIVE KeyValuePairs(_, _, _)
KeyValuePairs(pairs, attrs_str, attrs) ==
    IF pairs = <<>> THEN attrs
    ELSE LET pair == Head(pairs)
             kv == Split(pair, "=", 1)
         IN  KeyValuePairs(Tail(pairs), attrs_str,
                 IF Contains(pair, "=")
                 THEN Update(attrs, Strip(kv[1]) :> Strip(kv[2]))
                 ELSE Update(attrs, "description" :> Strip(attrs_str)))

\* a COMPANIES loop that adds the company whether or not it is a node
companies_line_readds(self, line0, now) ==
    LET line == Strip(SubSeq(line0, 3, Len(line0)))
        parts == Split(line, ":", 1)
        attrs_str == Strip(parts[2])
        ev == Eval(attrs_str)
    IN  IF ~StartsWith(line0, "- ") \/ Len(parts) # 2 \/ ev.kind = "set" THEN self
        ELSE add_company(self, Strip(parts[1]),
                 IF ev.kind = "error"
                 THEN KeyValuePairs(Split(attrs_str, ",", -1), attrs_str, EmptyDict)
                 ELSE ev.value, now)

\* one line of the COMPANIES section
companies_line(self, line0, now) ==
    LET line == Strip(SubSeq(line0, 3, Len(line0)))
        parts == Split(line, ":", 1)
        company == Strip(parts[1])
        attrs_str == Strip(parts[2])
        ev == Eval(attrs_str)
        attrs == IF ev.kind = "error"
                 THEN KeyValuePairs(Split(attrs_str, ",", -1), attrs_str, EmptyDict)
                 ELSE ev.value
    IN  IF ~StartsWith(line0, "- ") THEN self
        ELSE IF Len(parts) # 2 THEN self
        ELSE IF HasNode(self.graph, company) THEN self
        ELSE IF ev.kind = "set" THEN self   \* add_company raises TypeError
        ELSE add_company(self, company, attrs, now)

\* the attribute loop of the PRODUCTS section: st holds attrs and company
\* ("" for None)
RECURSIVE ProductAttrs(_, _)
ProductAttrs(pieces, st) ==
    IF pieces = <<>> THEN st
    ELSE LET attr == Strip(Head(pieces))
             kv == Split(attr, "=", 1)
             key == Strip(kv[1])
             value == Strip(kv[2])
         IN  ProductAttrs(Tail(pieces),
                 IF Contains(attr, "=")
                 THEN IF key = "company"
                      THEN [st EXCEPT !.company = value]
                      ELSE [st EXCEPT !.attrs = Update(@, key :> value)]
                 ELSE [st EXCEPT !.attrs = Update(@, "description" :> attr)])

\* the company a Products line without one is given: the competitor if
\* its name is in the text, else the user company if its name is
InferProductCompany(attrs_str, user_company, competitor) ==
    IF Contains(Lower(attrs_str), Lower(competitor)) THEN competitor
    ELSE IF Contains(Lower(attrs_str), Lower(user_company)) THEN user_company
    ELSE ""

\* one line of the PRODUCTS section
products_line(self, line0, user_company, competitor, now) ==
    LET line == Strip(SubSeq(line0, 3, Len(line0)))
        parts == Split(line, ":", 1)
        product == Strip(parts[1])
        attrs_str == parts[2]
        st == ProductAttrs(Split(attrs_str, ",", -1),
                           [attrs |-> EmptyDict, company |-> ""])
        company == IF st.company = "" /\ WordCount(attrs_str) >= 2
                   THEN InferProductCompany(attrs_str, user_company, competitor)
                   ELSE st.company
    IN  IF ~StartsWith(line0, "- ") THEN self
        ELSE IF ~Contains(line, ":") THEN self
        ELSE IF company = "" THEN self
        ELSE add_product(self, product, company, st.attrs, now)

\* the 'operates_in' edges from the companies named by the line that are
\* nodes of the graph
RECURSIVE LinkCompanies(_, _, _, _)
LinkCompanies(self, companies, market, now) ==
    IF companies = <<>> THEN self
    ELSE LET company == Strip(Head(companies))
         IN  LinkCompanies(
                 IF HasNode(self.graph, company)
                 THEN add_relationship(self, company, market, "operates_in",
                                       EmptyDict, now)
                 ELSE self,
                 Tail(companies), market, now)

\* one line of the MARKETS section
markets_line(self, line0, user_company, competitor, now) ==
    LET line == Strip(SubSeq(line0, 3, Len(line0)))
        parts == Split(line, ":", 1)
        market == Strip(parts[1])
        attrs_str == parts[2]
        ev == Eval(Strip(attrs_str))
        attrs == IF ev.kind = "error"
                 THEN [description |-> Strip(attrs_str)]
                 ELSE ev.value
        s1 == IF ~HasNode(self.graph, market)
              THEN add_market(self, market, attrs, now)
              ELSE self
    IN  IF ~StartsWith(line0, "- ") THEN self
        ELSE IF ~Contains(line, ":") THEN self
        ELSE IF ev.kind = "set"
        THEN \* add_market and attrs['companies'] raise TypeError for a set
             IF ~HasNode(self.graph, market) \/ "companies" \in ev.value
             THEN self
             ELSE add_relationship(
                      add_relationship(self, user_company, market,
                                       "operates_in", EmptyDict, now),
                      competitor, market, "operates_in", EmptyDict, now)
        ELSE IF "companies" \in DOMAIN attrs
        THEN LinkCompanies(s1, Split(attrs["companies"], ",", -1), market, now)
        ELSE add_relationship(
                 add_relationship(s1, user_company, market,
                                  "operates_in", EmptyDict, now),
                 competitor, market, "operates_in", EmptyDict, now)

\* the attribute loop of the PEOPLE section: attrs holds role and company
\* ("" for None)
RECURSIVE PersonAttrs(_, _)
PersonAttrs(pairs, attrs) ==
    IF pairs = <<>> THEN attrs
    ELSE LET pair == Strip(Head(pairs))
             kv == Split(pair, "=", 1)
             key == Lower(Strip(kv[1]))
             value == Strip(kv[2])
         IN  PersonAttrs(Tail(pairs),
                 IF ~Contains(pair, "=") THEN attrs
                 ELSE IF key = "company" THEN [attrs EXCEPT !.company = value]
                 ELSE IF key \in {"role", "position", "title"}
                      THEN [attrs EXCEPT !.role = value]
                 ELSE attrs)

\* the inference of the People loop in the order of the Products loop
InferPersonCompanyCompetitorFirst(attrs_str, user_company, competitor) ==
    IF Contains(Lower(attrs_str), Lower(competitor)) THEN competitor
    ELSE IF Contains(Lower(attrs_str), Lower(user_company)) THEN user_company
    ELSE ""

\* the company a People line without one is given: the user company if
\* its name is in the text, else the competitor if its name is
InferPersonCompany(attrs_str, user_company, competitor) ==
    IF Contains(Lower(attrs_str), Lower(user_company)) THEN user_company
    ELSE IF Contains(Lower(attrs_str), Lower(competitor)) THEN competitor
    ELSE ""

\* one line of the PEOPLE section
people_line(self, line0, user_company, competitor, now) ==
    LET line == Strip(SubSeq(line0, 3, Len(line0)))
        parts == Split(line, ":", 1)
        person == Strip(parts[1])
        attrs_str == parts[2]
        attrs == PersonAttrs(Split(attrs_str, ",", -1),
                             [role |-> "Unknown", company |-> ""])
        company == IF attrs.company = ""
                   THEN InferPersonCompany(attrs_str, user_company, competitor)
                   ELSE attrs.company
    IN  IF ~StartsWith(line0, "- ") THEN self
        ELSE IF ~Contains(line, ":") THEN self
        ELSE IF company = "" THEN self
        ELSE add_person(self, person, company, attrs.role, EmptyDict, now)

\* one line of the RELATIONSHIPS section
relationships_line(self, line0, now) ==
    LET line == Strip(SubSeq(line0, 3, Len(line0)))
        parts == Split(line, "->", -1)
        source == Strip(parts[1])
        rel_type == Strip(parts[2])
        target_parts == Split(parts[3], ":", 1)
        target == Strip(target_parts[1])
        description == IF Len(target_parts) > 1 THEN Strip(target_parts[2]) ELSE ""
    IN  IF ~StartsWith(line0, "- ") THEN self
        ELSE IF ~Contains(line, "->") THEN self
        ELSE IF Len(parts) < 3 THEN self
        ELSE IF HasNode(self.graph, source) /\ HasNode(self.graph, target)
        THEN add_relationship(self, source, target, rel_type,
                 IF description # "" THEN [description |-> description]
                 ELSE EmptyDict,
                 now)
        ELSE self

\* -------------------------------------------------------------- queries
\* A call either returns a value or ends in an exception.
Returned(v) == [raised |-> FALSE, value |-> v]
Raised(e) == [raised |-> TRUE, value |-> e]

\* the edges u -> v whose relationship_type is 'competes_with'
CompetesEdges(g, u, v) ==
    SelectSeq(EdgesBetween(g, u, v),
              LAMBDA e : Get(e.attrs, "relationship_type") = "competes_with")

\* the first loop of get_competitors: one append per matching edge
RECURSIVE OutgoingCompetitors(_, _, _)
OutgoingCompetitors(g, company, succ) ==
    IF succ = <<>> THEN <<>>
    ELSE LET target == Head(succ)
         IN  [i \in 1..Len(CompetesEdges(g, company, target)) |-> target]
             \o OutgoingCompetitors(g, company, Tail(succ))

\* the second loop of get_competitors: append unless already listed
RECURSIVE IncomingCompetitors(_, _, _, _)
IncomingCompetitors(g, company, pred, competitors) ==
    IF pred = <<>> THEN competitors
    ELSE LET source == Head(pred)
             found == /\ CompetesEdges(g, source, company) # <<>>
                      /\ ~InSeq(source, competitors)
         IN  IncomingCompetitors(g, company, Tail(pred),
                 IF found THEN Append(competitors, source) ELSE competitors)

\* get_competitors without its second loop
get_competitors_outgoing(g, company) ==
    IF ~HasNode(g, company) THEN Raised("NetworkXError")
    ELSE Returned(OutgoingCompetitors(g, company, Successors(g, company)))

\* get_competitors(company); graph.successors raises for a missing node
get_competitors(g, company) ==
    IF ~HasNode(g, company) THEN Raised("NetworkXError")
    ELSE Returned(
           IncomingCompetitors(g, company, Predecessors(g, company),
               OutgoingCompetitors(g, company, Successors(g, company))))

\* the successors of company whose entity_type is 'market'
MarketsOf(g, company) ==
    {t \in SeqToSet(Successors(g, company)) :
        Get(g.attr[t], "entity_type") = "market"}

\* get_shared_markets that forgets the markets of company2
get_shared_markets_first(g, company1, company2) ==
    IF ~HasNode(g, company1) \/ ~HasNode(g, company2)
    THEN Raised("NetworkXError")
    ELSE Returned(MarketsOf(g, company1))

\* get_shared_markets(company1, company2): the list of a set, so the value
\* is the set (the order of the list is that of Python's set iteration)
get_shared_markets(g, company1, company2) ==
    IF ~HasNode(g, company1) \/ ~HasNode(g, company2)
    THEN Raised("NetworkXError")
    ELSE Returned(MarketsOf(g, company1) \cap MarketsOf(g, company2))

\* get_company_products(company): the successors whose entity_type is
\* 'product' (find_competitive_threats makes a set of them)
get_company_products(g, company) ==
    {t \in SeqToSet(Successors(g, company)) :
        Get(g.attr[t], "entity_type") = "product"}

\* find_competitive_threats(user_company, competitor); overlapping_products
\* is a list built by iterating two sets, so the value is the set of its
\* entries
find_competitive_threats(g, user_company, competitor) ==
    IF ~HasNode(g, user_company) \/ ~HasNode(g, competitor)
    THEN Raised("NetworkXError")
    ELSE Returned(
           [shared_markets |-> get_shared_markets(g, user_company, competitor).value,
            competitor_advantages |-> <<>>,
            overlapping_products |->
                {[user_product |-> user_prod, competitor_product |-> comp_prod,
                  category |-> Get(g.attr[user_prod], "category")] :
                    <<user_prod, comp_prod>> \in
                       {pr \in get_company_products(g, user_company)
                                  \X get_company_products(g, competitor) :
                           Get(g.attr[pr[1]], "category")
                              = Get(g.attr[pr[2]], "category")}},
            market_position |-> EmptyDict])

\* export_graph_data()['nodes']: every node with its attribute dict
ExportNodes(g) ==
    [i \in 1..Len(g.node) |-> [id |-> g.node[i], attributes |-> g.attr[g.node[i]]]]

\* ----------------------------------------------------- path enumeration
\* set(target) of networkx.all_simple_paths for a target that is no node:
\* the characters of the string
NameChars(name) == {SubSeq(name, i, i) : i \in 1..Len(name)}

\* G.edges(n): the target of every edge out of n, neighbour by neighbour
RECURSIVE OutTargets(_, _, _)
OutTargets(g, n, succ) ==
    IF succ = <<>> THEN <<>>
    ELSE [i \in 1..Len(EdgesBetween(g, n, Head(succ))) |-> Head(succ)]
         \o OutTargets(g, n, Tail(succ))

\* The depth-first search of all_simple_paths: node is entered over the
\* nodes of before; a path is yielded when node is a target, and the search
\* goes on through node while the path has fewer than cutoff edges and a
\* target is still ahead.
RECURSIVE SearchFrom(_, _, _, _, _)
RECURSIVE SearchChildren(_, _, _, _, _)
SearchFrom(g, node, before, targets, cutoff) ==
    LET path == Append(before, node)
        here == IF node \in targets THEN <<path>> ELSE <<>>
    IN  IF Len(before) < cutoff /\ (targets \ SeqToSet(path)) # {}
        THEN here \o SearchChildren(g, OutTargets(g, node, Successors(g, node)),
                                    path, targets, cutoff)
        ELSE here

SearchChildren(g, children, path, targets, cutoff) ==
    IF children = <<>> THEN <<>>
    ELSE (IF InSeq(Head(children), path) THEN <<>>
          ELSE SearchFrom(g, Head(children), path, targets, cutoff))
         \o SearchChildren(g, Tail(children), path, targets, cutoff)

\* networkx.all_simple_paths(G, source, target, cutoff).  trivial tells the
\* library at hand: since networkx 3.2 a source that is a target yields
\* the path [source], before it the call yields nothing then, nor for a
\* cutoff below 1.
all_simple_paths(g, source, target, cutoff, trivial) ==
    IF ~HasNode(g, source) THEN Raised("NodeNotFound")
    ELSE LET targets == IF HasNode(g, target) THEN {target} ELSE NameChars(target)
         IN  IF trivial
             THEN Returned(IF cutoff >= 0 /\ targets # {}
                           THEN SearchFrom(g, source, <<>>, targets, cutoff)
                           ELSE <<>>)
             ELSE Returned(IF source \in targets \/ cutoff < 1
                           THEN <<>>
                           ELSE SearchFrom(g, source, <<>>, targets, cutoff))

\* get_relationship_path: the paths, or [] when the library raises
get_relationship_path(g, source, target, max_length, trivial) ==
    LET r == all_simple_paths(g, source, target, max_length, trivial)
    IN  IF r.raised THEN Returned(<<>>) ELSE r

\* ------------------------------------------------------------ the calls
Init ==
    /\ graph = EmptyGraph
    /\ entity_attributes = <<>>
    /\ relationship_history = <<>>
    /\ clock = 0
    /\ ret = [op |-> "__init__", args |-> <<>>, raised |-> FALSE, value |-> None]
    /\ parse = [pc |-> "idle"]

\* no parse_entity_extraction call is running (the object is used by one
\* caller at a time)
Idle == parse.pc = "idle"

\* a mutating call ends: the fields are those it left, it returned None
Mutate(self, op, args) ==
    /\ graph' = self.graph
    /\ entity_attributes' = self.entity_attributes
    /\ relationship_history' = self.relationship_history
    /\ clock' = clock + 1
    /\ ret' = [op |-> op, args |-> args, raised |-> FALSE, value |-> None]
    /\ UNCHANGED parse

\* a query ends: nothing changes but what the caller got
Query(op, args, outcome) ==
    /\ ret' = [op |-> op, args |-> args,
               raised |-> outcome.raised, value |-> outcome.value]
    /\ UNCHANGED <<graph, entity_attributes, relationship_history, clock, parse>>

AddCompany(names, attrs, bound) ==
    /\ Idle /\ clock < bound
    /\ \E n \in names, a \in attrs :
          Mutate(add_company(Self, n, a, clock), "add_company", <<n, a>>)

AddMarket(names, attrs, bound) ==
    /\ Idle /\ clock < bound
    /\ \E n \in names, a \in attrs :
          Mutate(add_market(Self, n, a, clock), "add_market", <<n, a>>)

AddProduct(names, companies, attrs, bound) ==
    /\ Idle /\ clock < bound
    /\ \E n \in names, c \in companies, a \in attrs :
          Mutate(add_product(Self, n, c, a, clock), "add_product", <<n, c, a>>)

AddPerson(names, companies, roles, bound) ==
    /\ Idle /\ clock < bound
    /\ \E n \in names, c \in companies, r \in roles :
          Mutate(add_person(Self, n, c, r, EmptyDict, clock),
                 "add_person", <<n, c, r>>)

AddRelationship(sources, targets, types, attrs, bound) ==
    /\ Idle /\ clock < bound
    /\ \E s \in sources, t \in targets, ty \in types, a \in attrs :
          Mutate(add_relationship(Self, s, t, ty, a, clock),
                 "add_relationship", <<s, t, ty, a>>)

ImportFromAnalysis(users, competitors, bound) ==
    /\ Idle /\ clock < bound
    /\ \E u \in users, c \in competitors :
          Mutate(import_from_analysis(Self, u, c, clock),
                 "import_from_analysis", <<u, c>>)

GetCompetitors(names) ==
    /\ Idle
    /\ \E n \in names :
          Query("get_competitors", <<n>>, get_competitors(graph, n))

GetSharedMarkets(names) ==
    /\ Idle
    /\ \E a \in names, b \in names :
          Query("get_shared_markets", <<a, b>>, get_shared_markets(graph, a, b))

FindCompetitiveThreats(users, competitors) ==
    /\ Idle
    /\ \E u \in users, c \in competitors :
          Query("find_competitive_threats", <<u, c>>,
                find_competitive_threats(graph, u, c))

GetRelationshipPath(sources, targets, lengths) ==
    /\ Idle
    /\ \E s \in sources, t \in targets, m \in lengths, trivial \in BOOLEAN :
          Query("get_relationship_path", <<s, t, m>>,
                get_relationship_path(graph, s, t, m, trivial))

ExportGraphData ==
    /\ Idle
    /\ Query("export_graph_data", <<>>, Returned(ExportNodes(graph)))

\* the first line to process at or after section number k: its section and
\* its place in it; kind 0 when no section is left
FirstLineFrom(sections, k) ==
    LET left == {n \in k..Len(SectionOrder) : SectionOrder[n] \in DOMAIN sections}
    IN  IF left = {} THEN [kind |-> 0, i |-> 0]
        ELSE [kind |-> CHOOSE n \in left : \A m \in left : n <= m, i |-> 1]

\* a loop that leaves its section after one line
NextLineBreak(sections, kind, i) == FirstLineFrom(sections, kind + 1)

\* the line processed after line i of section number kind
NextLine(sections, kind, i) ==
    IF i < Len(sections[SectionOrder[kind]])
    THEN [kind |-> kind, i |-> i + 1]
    ELSE FirstLineFrom(sections, kind + 1)

\* parse_entity_extraction goes on with the line at pos, or returns
Continue(text, user_company, competitor, sections, pos) ==
    IF pos.kind = 0
    THEN /\ parse' = [pc |-> "idle"]
         /\ ret' = [op |-> "parse_entity_extraction",
                    args |-> <<text, user_company, competitor>>,
                    raised |-> FALSE, value |-> None]
    ELSE /\ parse' = [pc |-> "lines", text |-> text,
                      user_company |-> user_company, competitor |-> competitor,
                      sections |-> sections, kind |-> pos.kind, i |-> pos.i]
         /\ UNCHANGED ret

\* parse_entity_extraction up to the first line of the first section: the
\* bootstrap and the section splitter
ParseBegin(texts, users, competitors, bound) ==
    /\ Idle /\ clock < bound
    /\ \E text \in texts, u \in users, c \in competitors :
          LET self == Bootstrap(Self, u, c, clock)
              sections == SplitSections(text)
          IN  /\ graph' = self.graph
              /\ entity_attributes' = self.entity_attributes
              /\ relationship_history' = self.relationship_history
              /\ clock' = clock + 1
              /\ Continue(text, u, c, sections, FirstLineFrom(sections, 1))

\* the section being processed and the line the loop is at
CurrentSection == SectionOrder[parse.kind]
CurrentLine == parse.sections[CurrentSection][parse.i]

\* one iteration of the loop over the lines of the section `section`
LineStep(section, self) ==
    /\ graph' = self.graph
    /\ entity_attributes' = self.entity_attributes
    /\ relationship_history' = self.relationship_history
    /\ clock' = clock + 1
    /\ Continue(parse.text, parse.user_company, parse.competitor,
                parse.sections, NextLine(parse.sections, parse.kind, parse.i))

CompaniesLine ==
    /\ parse.pc = "lines" /\ CurrentSection = "COMPANIES"
    /\ LineStep("COMPANIES", companies_line(Self, CurrentLine, clock))

ProductsLine ==
    /\ parse.pc = "lines" /\ CurrentSection = "PRODUCTS"
    /\ LineStep("PRODUCTS",
                products_line(Self, CurrentLine, parse.user_company,
                              parse.competitor, clock))

MarketsLine ==
    /\ parse.pc = "lines" /\ CurrentSection = "MARKETS"
    /\ LineStep("MARKETS",
                markets_line(Self, CurrentLine, parse.user_company,
                             parse.competitor, clock))

PeopleLine ==
    /\ parse.pc = "lines" /\ CurrentSection = "PEOPLE"
    /\ LineStep("PEOPLE",
                people_line(Self, CurrentLine, parse.user_company,
                            parse.competitor, clock))

RelationshipsLine ==
    /\ parse.pc = "lines" /\ CurrentSection = "RELATIONSHIPS"
    /\ LineStep("RELATIONSHIPS", relationships_line(Self, CurrentLine, clock))

\* ------------------------------------------------------- specifications
Names == {"A", "B", "C"}

\* The mutating calls of the engine, in any order.
Next ==
    \/ AddCompany({"A", "B"}, {EmptyDict, [revenue |-> "100"]}, MaxOps)
    \/ AddMarket({"A", "C"}, {EmptyDict}, MaxOps)
    \/ AddProduct({"C"}, {"A", "B"}, {EmptyDict, [category |-> "tools"]}, MaxOps)
    \/ AddPerson({"C"}, {"A"}, {"CEO"}, MaxOps)
    \/ AddRelationship(Names, Names, {"competes_with", "operates_in"},
                       {EmptyDict}, MaxOps)
    \/ ImportFromAnalysis({"A"}, {"B"}, MaxOps)
    \/ ExportGraphData

Spec == Init /\ [][Next]_vars

\* Edges and markets, and the two queries over them.
NextQuery ==
    \/ AddCompany({"A"}, {EmptyDict}, MaxOps)
    \/ AddMarket({"C"}, {EmptyDict}, MaxOps)
    \/ AddRelationship({"A", "B"}, Names, {"competes_with", "operates_in"},
                       {EmptyDict}, MaxOps)
    \/ GetCompetitors(Names)
    \/ GetSharedMarkets({"A", "B"})

SpecQuery == Init /\ [][NextQuery]_vars

PathNames == {"A", "B", "C", "D"}

\* Edges over four names, and the path query.
NextPath ==
    \/ AddRelationship(PathNames, PathNames, {"partners_with"}, {EmptyDict},
                       MaxPathOps)
    \/ GetRelationshipPath({"C", "D"}, {"C", "D", "AB"}, {2, 3})

SpecPath == Init /\ [][NextPath]_vars

\* The texts of the parser specification.
Scenario3 ==
    "COMPANIES:\n- Acme: revenue=100\nPRODUCTS:\n- Widget: company=Acme, category=tools"

\* The Relationships lines 'Source -> RelType -> Target[: description]',
\* spaced and unspaced.
RelSources == {"A", "X"}
RelTargets == {"B", "X"}
RelTypes == {"partners_with"}
RelDescriptions == {"", "joint venture", "a -> b"}

RelLineForms(s, ty, t, d) ==
    {"- " \o s \o " -> " \o ty \o " -> " \o t
        \o (IF d = "" THEN "" ELSE ": " \o d),
     "-  " \o s \o "->" \o ty \o "->" \o t
        \o (IF d = "" THEN "" ELSE ":" \o d)}

RelLines ==
    UNION {RelLineForms(s, ty, t, d) :
              s \in RelSources, ty \in RelTypes, t \in RelTargets,
              d \in RelDescriptions}
    \cup {"- A -> B", "A -> partners_with -> B"}

FullText ==
    "intro\nCOMPANIES:\n- X: revenue=100\nPRODUCTS:\n- W: company=A, category=tools\n"
       \o "MARKETS:\n- M: big cloud\nPEOPLE:\n- P: role=CEO, company=B\n"
       \o "RELATIONSHIPS:\n- X -> supplies -> A: parts"

ParseTexts ==
    {"RELATIONSHIPS:\n" \o l1 \o "\n" \o l2 :
        l1 \in {"- A -> partners_with -> X", "- A -> partners_with -> B",
                "- A -> B"},
        l2 \in RelLines}
    \cup {FullText, Scenario3, ""}

\* parse_entity_extraction, line by line, on a graph that may hold X.
NextParse ==
    \/ AddCompany({"X"}, {EmptyDict}, MaxParseOps)
    \/ ParseBegin(ParseTexts, {"A"}, {"B"}, MaxParseOps)
    \/ CompaniesLine
    \/ ProductsLine
    \/ MarketsLine
    \/ PeopleLine
    \/ RelationshipsLine

SpecParse == Init /\ [][NextParse]_vars

\* Every way an edge is created: the calls of the engine and the parse.
NextHistory ==
    \/ AddCompany({"A", "B"}, {EmptyDict}, MaxOps)
    \/ AddMarket({"C"}, {EmptyDict}, MaxOps)
    \/ AddProduct({"C"}, {"A", "B"}, {EmptyDict, [category |-> "tools"]}, MaxOps)
    \/ AddPerson({"C"}, {"A"}, {"CEO"}, MaxOps)
    \/ AddRelationship(Names, Names, {"competes_with"}, {EmptyDict}, MaxOps)
    \/ ImportFromAnalysis({"A"}, {"B"}, MaxOps)
    \/ ParseBegin({FullText, "RELATIONSHIPS:\n- A -> partners_with -> B: joint venture"},
                  {"A"}, {"B"}, MaxOps)
    \/ CompaniesLine
    \/ ProductsLine
    \/ MarketsLine
    \/ PeopleLine
    \/ RelationshipsLine

SpecHistory == Init /\ [][NextHistory]_vars

\* The texts of the Products, People, Markets and Companies sections, for
\* the anchors Acme and Globex; Zed is a company the graph may hold.
MaxSectionOps == 3

EndpointTexts ==
    {"PRODUCTS:\n- Widget: company=Zed, category=tools",
     "PRODUCTS:\n- Widget: company=Acme, category=tools",
     "PEOPLE:\n- Pat: role=CEO, company=Zed",
     "PEOPLE:\n- Pat: role=CEO, company=Globex",
     "MARKETS:\n- Cloud: big market"}

\* One well-formed line per section kind, and lines the section's loop
\* skips: no bullet, no colon (no second arrow), an attribute text that
\* evaluates to a set.
WellFormedLine ==
    [COMPANIES |-> "- Zed: revenue=100",
     PRODUCTS |-> "- Widget: company=Acme, category=tools",
     MARKETS |-> "- Cloud: big market",
     PEOPLE |-> "- Pat: role=CEO, company=Globex",
     RELATIONSHIPS |-> "- Acme -> partners_with -> Globex"]

MalformedLines ==
    [COMPANIES |-> {"Zed: revenue=100", "- Zed revenue", "- Zed: 5"},
     PRODUCTS |-> {"Widget: company=Acme", "- Widget company=Acme", "- Widget:"},
     MARKETS |-> {"Cloud: big market", "- Cloud big market", "-Cloud: big market"},
     PEOPLE |-> {"Pat: company=Globex", "- Pat company=Globex", "-Pat: company=Globex"},
     RELATIONSHIPS |-> {"Acme -> partners_with -> Globex",
                        "- Acme partners_with Globex", "- Acme -> Globex"}]

SectionKinds == {SectionOrder[k] : k \in 1..Len(SectionOrder)}

\* a section of one malformed and one well-formed line, in either order,
\* and a malformed line in a section before a well-formed section
FaultTextsOf(K) ==
    UNION {{K \o ":\n" \o m \o "\n" \o WellFormedLine[K],
            K \o ":\n" \o WellFormedLine[K] \o "\n" \o m,
            "COMPANIES:\n- Zed revenue\n" \o K \o ":\n" \o m \o "\n"
                \o WellFormedLine[K]} : m \in MalformedLines[K]}

FaultTexts == UNION {FaultTextsOf(K) : K \in SectionKinds}

\* Texts as the splitter reads them: lines before any marker, then
\* blocks of a marker line and the lines under it; a kind may open twice.
RECURSIVE JoinLines(_)
JoinLines(lines) ==
    IF lines = <<>> THEN ""
    ELSE IF Len(lines) = 1 THEN lines[1]
    ELSE lines[1] \o "\n" \o JoinLines(Tail(lines))

RECURSIVE BlockLines(_)
BlockLines(blocks) ==
    IF blocks = <<>> THEN <<>>
    ELSE <<Head(blocks).kind \o ":">> \o Head(blocks).lines
            \o BlockLines(Tail(blocks))

TextOf(case) == JoinLines(case.pre \o BlockLines(case.blocks))

Block(kind, lines) == [kind |-> kind, lines |-> lines]

SplitCases ==
    {[pre |-> pre, blocks |-> blocks] :
        pre \in {<<>>, <<"- Early: size=0">>},
        blocks \in
          {<<Block("COMPANIES", <<"- One: size=1", "- Two: size=2">>)>>,
           <<Block("COMPANIES", <<"- One: size=1">>),
             Block("COMPANIES", <<"- Two: size=2">>)>>,
           <<Block("COMPANIES", <<"- One: size=1">>),
             Block("MARKETS", <<"- Cloud: big market">>),
             Block("COMPANIES", <<"- Two: size=2">>)>>,
           <<Block("COMPANIES", <<"- One: size=1">>),
             Block("MARKETS", <<"- Cloud: big market">>),
             Block("COMPANIES", <<>>)>>,
           <<Block("Markets", <<"- Cloud: big market">>),
             Block("COMPANIES", <<"- One: size=1">>)>>}}

SplitTexts == {TextOf(case) : case \in SplitCases}

\* Markets lines that name companies, in the key=value grammar and as the
\* items of a Python dict, and Markets lines that name none
CompaniesNamed == {<<"Acme">>, <<"Zed">>, <<"Acme", "Zed">>}

RECURSIVE JoinComma(_)
JoinComma(names) ==
    IF Len(names) = 1 THEN names[1]
    ELSE names[1] \o ", " \o JoinComma(Tail(names))

KeyValueMarketLine(names) == "- Cloud: companies=" \o JoinComma(names)

DictMarketLine(names) == "- Cloud: 'companies': '" \o JoinComma(names) \o "'"

PlainMarketLines == {"- Cloud: big market", "- Cloud: size=big", "- Cloud:"}

MarketTexts ==
    {"MARKETS:\n" \o line :
        line \in {KeyValueMarketLine(<<"Acme">>), KeyValueMarketLine(<<"Zed">>)}
                 \cup {DictMarketLine(names) : names \in CompaniesNamed}
                 \cup PlainMarketLines}

\* People lines without a company key, and which anchors their attribute
\* text names
PeopleCases ==
    {[line |-> "- Pat: role=CEO of Acme", user |-> TRUE, competitor |-> FALSE],
     [line |-> "- Pat: role=CEO, formerly at globex", user |-> FALSE, competitor |-> TRUE],
     [line |-> "- Pat: Globex", user |-> FALSE, competitor |-> TRUE],
     [line |-> "- Pat: joined ACME from Globex", user |-> TRUE, competitor |-> TRUE],
     [line |-> "- Pat: title=CTO, left Globex for Acme", user |-> TRUE, competitor |-> TRUE],
     [line |-> "- Pat: role=CEO", user |-> FALSE, competitor |-> FALSE]}

PeopleTexts == {"PEOPLE:\n" \o case.line : case \in PeopleCases}

\* Products lines without a company key: which anchors their attribute
\* text names and how many words it has
ProductCases ==
    {[line |-> "- Gadget: Globex", user |-> FALSE, competitor |-> TRUE, words |-> 1],
     [line |-> "- Gadget: category=Acme", user |-> TRUE, competitor |-> FALSE, words |-> 1],
     [line |-> "- Gadget: made by globex", user |-> FALSE, competitor |-> TRUE, words |-> 3],
     [line |-> "- Gadget: category=tools, from ACME", user |-> TRUE, competitor |-> FALSE, words |-> 3],
     [line |-> "- Gadget: Acme beats Globex", user |-> TRUE, competitor |-> TRUE, words |-> 3],
     [line |-> "- Gadget: category=tools", user |-> FALSE, competitor |-> FALSE, words |-> 1],
     [line |-> "- Gadget: fast and cheap", user |-> FALSE, competitor |-> FALSE, words |-> 3]}

ProductTexts == {"PRODUCTS:\n" \o case.line : case \in ProductCases}

\* Companies lines for the anchors and for Zed
CompanyAttrTexts == {"revenue=100", "'revenue': '100'", "hq=Paris, revenue=5"}

CompanyLine(name, attrs_str) == "- " \o name \o ": " \o attrs_str

CompanyTexts ==
    {"COMPANIES:\n" \o CompanyLine(name, attrs_str) \o "\n"
        \o CompanyLine("Zed", "revenue=100") :
        name \in {"Acme", "Globex"}, attrs_str \in CompanyAttrTexts}

SectionTexts ==
    EndpointTexts \cup FaultTexts \cup SplitTexts \cup MarketTexts
       \cup PeopleTexts \cup ProductTexts \cup CompanyTexts

\* parse_entity_extraction for Acme against Globex, line by line, on a
\* graph that may hold Zed.
NextSections ==
    \/ AddCompany({"Zed"}, {EmptyDict}, MaxSectionOps)
    \/ ParseBegin(SectionTexts, {"Acme"}, {"Globex"}, MaxSectionOps)
    \/ CompaniesLine
    \/ ProductsLine
    \/ MarketsLine
    \/ PeopleLine
    \/ RelationshipsLine

SpecSections == Init /\ [][NextSections]_vars

\* Repeated parses for the same anchors, on a graph that may already hold
\* either of them.
MaxBootstrapOps == 4

BootstrapTexts ==
    {"", "MARKETS:\n- Cloud: big market",
     "COMPANIES:\n- Globex: revenue=100\nPRODUCTS:\n- Widget: company=Acme\n"
        \o "MARKETS:\n- Cloud: big market\nPEOPLE:\n- Pat: company=Globex\n"
        \o "RELATIONSHIPS:\n- Globex -> supplies -> Acme"}

NextBootstrap ==
    \/ AddCompany({"Acme", "Globex"}, {EmptyDict}, MaxBootstrapOps)
    \/ ParseBegin(BootstrapTexts, {"Acme"}, {"Globex"}, MaxBootstrapOps)
    \/ CompaniesLine
    \/ ProductsLine
    \/ MarketsLine
    \/ PeopleLine
    \/ RelationshipsLine

SpecBootstrap == Init /\ [][NextBootstrap]_vars

\* Products with and without a category, and the threat report of A
\* against B.
MaxThreatOps == 3

NextThreats ==
    \/ AddProduct({"P", "Q"}, {"A", "B"},
                  {EmptyDict, [category |-> "tools"], [category |-> "toys"]},
                  MaxThreatOps)
    \/ AddCompany({"B"}, {EmptyDict}, MaxThreatOps)
    \/ FindCompetitiveThreats({"A"}, {"B"})

SpecThreats == Init /\ [][NextThreats]_vars

\* ---------------------------------------------------------- properties
RelType(e) == Get(e.attrs, "relationship_type")

EntityType(g, n) == Get(g.attr[n], "entity_type")

NoDuplicates(s) == \A i, j \in 1..Len(s) : s[i] = s[j] => i = j

\* C1: whenever an edge A -> B of type 'competes_with' is in the graph, B is
\* in get_competitors(A) and A is in get_competitors(B).
C1_Symmetry ==
    \A i \in 1..Len(graph.edges) :
        LET e == graph.edges[i]
            of_u == get_competitors(graph, e.u)
            of_v == get_competitors(graph, e.v)
        IN  RelType(e) = "competes_with" =>
                /\ ~of_u.raised /\ InSeq(e.v, of_u.value)
                /\ ~of_v.raised /\ InSeq(e.u, of_v.value)

\* get_competitors(B) returned A, which B reaches over no outgoing edge
C1_Witness ==
    /\ ret.op = "get_competitors" /\ ~ret.raised
    /\ \E i \in 1..Len(graph.edges) :
          LET e == graph.edges[i]
          IN  /\ RelType(e) = "competes_with"
              /\ e.v = ret.args[1] /\ e.u # e.v
              /\ CompetesEdges(graph, e.v, e.u) = <<>>
              /\ InSeq(e.u, ret.value)

\* C2: get_competitors(X) for a name X that is no node returns an empty
\* list and does not end in an error.
C2_MissingEntityReturnsEmpty ==
    (ret.op = "get_competitors" /\ ~HasNode(graph, ret.args[1])) =>
        (~ret.raised /\ ret.value = <<>>)

\* C3: one add_relationship call adds exactly one edge source -> target of
\* the given type, at the end, and leaves every stored edge as it was, also
\* when an edge of that type between the pair exists.
C3_AddRelationshipStep ==
    (ret'.op = "add_relationship" /\ clock' = clock + 1) =>
        LET s == ret'.args[1]
            t == ret'.args[2]
            n == Len(graph.edges)
        IN  /\ Len(graph'.edges) = n + 1
            /\ SubSeq(graph'.edges, 1, n) = graph.edges
            /\ Len(EdgesBetween(graph', s, t)) = Len(EdgesBetween(graph, s, t)) + 1
            /\ graph'.edges[n + 1].u = s
            /\ graph'.edges[n + 1].v = t
            /\ RelType(graph'.edges[n + 1]) = ret'.args[3]

C5_SharedMarketsCommute ==
    \A a \in Names, b \in Names :
        (HasNode(graph, a) /\ HasNode(graph, b)) =>
            LET ab == get_shared_markets(graph, a, b)
                ba == get_shared_markets(graph, b, a)
            IN  /\ ~ab.raised /\ ~ba.raised
                /\ ab.value = ba.value
                /\ ab.value =
                       {m \in SeqToSet(graph.node) :
                           /\ EntityType(graph, m) = "market"
                           /\ EdgesBetween(graph, a, m) # <<>>
                           /\ EdgesBetween(graph, b, m) # <<>>}

\* get_shared_markets of two different companies returned a market
C5_Witness ==
    /\ ret.op = "get_shared_markets" /\ ~ret.raised
    /\ ret.args[1] # ret.args[2]
    /\ ret.value # {}

\* the attribute dict a node holds after an add_* call if the call
\* replaced the node's attributes: the supplied ones and the stamped ones
ReplacedAttributes(r, now) ==
    CASE r.op = "add_company" ->
            Update(r.args[2], [added_at |-> now, entity_type |-> "company"])
      [] r.op = "add_market" ->
            Update(r.args[2], [added_at |-> now, entity_type |-> "market"])
      [] r.op = "add_product" ->
            Update(r.args[3], [added_at |-> now, entity_type |-> "product"])
      [] r.op = "add_person" ->
            [added_at |-> now, entity_type |-> "person", role |-> r.args[3]]

\* C6: after add_company, add_market, add_product or add_person on a name,
\* new or already in the graph, the node's attributes as export_graph_data
\* reads them are exactly the supplied attributes plus the stamped fields.
C6_ReAddOverwrites ==
    ret.op \in {"add_company", "add_market", "add_product", "add_person"} =>
        graph.attr[ret.args[1]] = ReplacedAttributes(ret, clock - 1)

\* C7: a node's entity_type, once set, never changes.
C7_TypeStep ==
    \A n \in SeqToSet(graph.node) :
        EntityType(graph, n) # None =>
            EntityType(graph', n) = EntityType(graph, n)

C7_EntityTypeImmutable == [][C7_TypeStep]_vars

\* C9: get_competitors returns no name twice, and every competitor reached
\* by an outgoing edge precedes every competitor reached only by an
\* incoming edge.
C9_CompetitorsDeduplicated ==
    (ret.op = "get_competitors" /\ ~ret.raised) =>
        LET c == ret.args[1]
            out(n) == CompetesEdges(graph, c, n) # <<>>
        IN  /\ NoDuplicates(ret.value)
            /\ \A i, j \in 1..Len(ret.value) :
                  (out(ret.value[j]) /\ ~out(ret.value[i])) => j < i

\* the simple directed paths of g from source to target with 1..max_length
\* edges, each as its node sequence
SimplePaths(g, source, target, max_length) ==
    UNION {
        {p \in [1..(k + 1) -> SeqToSet(g.node)] :
            /\ p[1] = source /\ p[k + 1] = target
            /\ \A i, j \in 1..(k + 1) : p[i] = p[j] => i = j
            /\ \A i \in 1..k : EdgesBetween(g, p[i], p[i + 1]) # <<>>}
        : k \in 1..max_length}

\* C4: get_relationship_path returns exactly the simple directed paths from
\* source to target with at most max_length edges, and an empty list, with
\* no error, when there is none within the bound or when source or target
\* is no node of the graph.  (The path of no edge from a node to itself is
\* left aside on both sides.)
C4_PathsExactlySimplePaths ==
    ret.op = "get_relationship_path" =>
        LET s == ret.args[1]
            t == ret.args[2]
        IN  /\ ~ret.raised
            /\ (~HasNode(graph, s) \/ ~HasNode(graph, t)) => ret.value = <<>>
            /\ (HasNode(graph, s) /\ HasNode(graph, t)) =>
                  SeqToSet(ret.value) \ {<<s>>} =
                      SimplePaths(graph, s, t, ret.args[3])

\* the same for calls whose target is a node of the graph or has one
\* character
C4_PathsOfPlainTargets ==
    (ret.op = "get_relationship_path" /\ Len(ret.args[2]) = 1) =>
        C4_PathsExactlySimplePaths

\* C8: the relationship history is an append-only log in step with the
\* edges: in every reachable state there is one record per edge, in the
\* order the edges were created, holding the edge's source, target, type
\* and timestamp; and no step changes or removes a record already there,
\* whichever call created the edge (add_relationship, add_product,
\* add_person, import_from_analysis, parse_entity_extraction).
C8_RecordOf(e) ==
    [source |-> e.u, target |-> e.v, type |-> RelType(e),
     timestamp |-> Get(e.attrs, "added_at")]

C8_InStep ==
    /\ Len(relationship_history) = Len(graph.edges)
    /\ \A i \in 1..Len(relationship_history) :
          relationship_history[i] = C8_RecordOf(graph.edges[i])

C8_AppendStep ==
    /\ Len(relationship_history') >= Len(relationship_history)
    /\ SubSeq(relationship_history', 1, Len(relationship_history))
          = relationship_history
    /\ Len(relationship_history') - Len(relationship_history)
          = Len(graph'.edges) - Len(graph.edges)

C10_LineStep(descriptions) ==
    (parse.pc = "lines" /\ CurrentSection = "RELATIONSHIPS") =>
        \A s \in RelSources, ty \in RelTypes, t \in RelTargets,
           d \in descriptions :
            CurrentLine \in RelLineForms(s, ty, t, d) =>
                /\ IF HasNode(graph, s) /\ HasNode(graph, t)
                   THEN /\ graph'.node = graph.node
                        /\ graph'.attr = graph.attr
                        /\ Len(graph'.edges) = Len(graph.edges) + 1
                        /\ SubSeq(graph'.edges, 1, Len(graph.edges)) = graph.edges
                        /\ LET e == graph'.edges[Len(graph'.edges)]
                           IN  /\ e.u = s /\ e.v = t /\ RelType(e) = ty
                               /\ IF d = "" THEN "description" \notin DOMAIN e.attrs
                                  ELSE Get(e.attrs, "description") = d
                   ELSE /\ graph' = graph
                        /\ relationship_history' = relationship_history
                /\ IF parse.i < Len(parse.sections["RELATIONSHIPS"])
                   THEN /\ parse'.pc = "lines"
                        /\ parse'.sections = parse.sections
                        /\ parse'.kind = parse.kind
                        /\ parse'.i = parse.i + 1
                   ELSE /\ parse'.pc = "idle"
                        /\ ret'.op = "parse_entity_extraction"
                        /\ ~ret'.raised

C10_RelationshipsLine == [][C10_LineStep(RelDescriptions)]_vars

\* C10 for the descriptions that hold no '->': the endpoint check, the one
\* edge and its description are as the claim says.
PlainDescriptions == {d \in RelDescriptions : ~Contains(d, "->")}

C10_PlainDescriptions == [][C10_LineStep(PlainDescriptions)]_vars

\* a line with an absent endpoint was dropped, and the line after it added
\* its edge with the description
C10_Witness ==
    /\ ret.op = "parse_entity_extraction"
    /\ ~HasNode(graph, "X")
    /\ Contains(ret.args[1], "- A -> partners_with -> X\n")
    /\ \E i \in 1..Len(graph.edges) :
          /\ RelType(graph.edges[i]) = "partners_with"
          /\ Get(graph.edges[i].attrs, "description") = "joint venture"

\* a step of a parse_entity_extraction call: its beginning or one line
ParseStep ==
    /\ clock' = clock + 1
    /\ \/ parse.pc = "lines"
       \/ parse'.pc = "lines"
       \/ ret'.op = "parse_entity_extraction"

Typed(g, n) == HasNode(g, n) /\ "entity_type" \in DOMAIN g.attr[n]

AllTyped(g) == \A i \in 1..Len(g.node) : Typed(g, g.node[i])

\* C11: the parser enforces endpoint existence for every relationship it
\* derives from text: a step of a parse on a graph whose nodes all have an
\* entity_type adds only edges whose two endpoints are typed entities
\* ('produces' and 'works_at' with an explicit company included) and
\* leaves no node without an entity_type.
C11_ParseStep ==
    (ParseStep /\ AllTyped(graph)) =>
        /\ AllTyped(graph')
        /\ \A i \in (Len(graph.edges) + 1)..Len(graph'.edges) :
              /\ Typed(graph', graph'.edges[i].u)
              /\ Typed(graph', graph'.edges[i].v)

C11_ParserEndpointsTyped == [][C11_ParseStep]_vars

\* what a well-formed line adds: the node it names with its entity type
\* (none for a Relationships line), and its edges
WellFormedEffect ==
    [COMPANIES |-> [node |-> <<"Zed", "company">>, edges |-> <<>>],
     PRODUCTS |-> [node |-> <<"Widget", "product">>,
                   edges |-> <<<<"Acme", "Widget", "produces">>>>],
     MARKETS |-> [node |-> <<"Cloud", "market">>,
                  edges |-> <<<<"Acme", "Cloud", "operates_in">>,
                              <<"Globex", "Cloud", "operates_in">>>>],
     PEOPLE |-> [node |-> <<"Pat", "person">>,
                 edges |-> <<<<"Pat", "Globex", "works_at">>>>],
     RELATIONSHIPS |-> [node |-> <<>>,
                        edges |-> <<<<"Acme", "Globex", "partners_with">>>>]]

EdgeTriple(e) == <<e.u, e.v, RelType(e)>>

NewEdges ==
    [i \in 1..(Len(graph'.edges) - Len(graph.edges)) |->
        EdgeTriple(graph'.edges[Len(graph.edges) + i])]

\* the step of a malformed line changes nothing; the step of the
\* well-formed line adds its entity and its edges and nothing else
C12_LineStep ==
    (parse.pc = "lines" /\ parse.text \in FaultTexts) =>
        LET K == CurrentSection
            eff == WellFormedEffect[K]
        IN  /\ CurrentLine \in MalformedLines[K] =>
                /\ graph' = graph
                /\ entity_attributes' = entity_attributes
                /\ relationship_history' = relationship_history
            /\ CurrentLine = WellFormedLine[K] =>
                /\ SubSeq(graph'.edges, 1, Len(graph.edges)) = graph.edges
                /\ IF K = "COMPANIES" /\ HasNode(graph, "Zed")
                   THEN graph' = graph
                   ELSE /\ NewEdges = eff.edges
                        /\ eff.node # <<>> =>
                             /\ EntityType(graph', eff.node[1]) = eff.node[2]
                             /\ graph'.node =
                                  IF HasNode(graph, eff.node[1]) THEN graph.node
                                  ELSE Append(graph.node, eff.node[1])
                        /\ eff.node = <<>> => graph'.node = graph.node
            /\ parse'.pc = "idle" =>
                 (ret'.op = "parse_entity_extraction" /\ ~ret'.raised)

\* when the parse of such a text has returned, no exception escaped and
\* the well-formed line of every section of the text was processed
C12_Returned ==
    (Idle /\ ret.op = "parse_entity_extraction" /\ ret.args[1] \in FaultTexts) =>
        /\ ~ret.raised
        /\ \A K \in SectionKinds :
              Contains(ret.args[1], "\n" \o WellFormedLine[K]) =>
                 LET eff == WellFormedEffect[K]
                 IN  /\ eff.node # <<>> => HasNode(graph, eff.node[1])
                     /\ \A j \in 1..Len(eff.edges) :
                          \E i \in 1..Len(graph.edges) :
                             EdgeTriple(graph.edges[i]) = eff.edges[j]

\* C12: parser fault isolation: in a section of one malformed and one
\* well-formed line, in either order, the malformed line changes nothing
\* and the well-formed line yields exactly its entity and relationships;
\* no exception escapes the parse, and a malformed line stops neither the
\* lines after it nor the later sections.
C12_FaultIsolation == [](C12_Returned) /\ [][C12_LineStep]_vars

\* a parse has returned whose malformed line came first and whose
\* well-formed Products line made the product
C12_Witness ==
    /\ Idle /\ ret.op = "parse_entity_extraction"
    /\ ret.args[1] = "PRODUCTS:\n- Widget company=Acme\n" \o WellFormedLine["PRODUCTS"]
    /\ HasNode(graph, "Widget")
    /\ EntityType(graph, "Widget") = "product"

\* the 'competes_with' edges from u to c
CompetesCount(g, u, c) ==
    Cardinality({i \in 1..Len(g.edges) :
                    EdgeTriple(g.edges[i]) = <<u, c, "competes_with">>})

\* the beginning of a parse for Acme against Globex: both anchors are
\* nodes afterwards, an anchor that was a node keeps its attributes, and
\* the 'competes_with' edge is added if and only if Globex was no node
C13_BootstrapStep ==
    (Idle /\ ParseStep) =>
        /\ HasNode(graph', "Acme") /\ HasNode(graph', "Globex")
        /\ \A a \in {"Acme", "Globex"} :
              HasNode(graph, a) => graph'.attr[a] = graph.attr[a]
        /\ SubSeq(graph'.edges, 1, Len(graph.edges)) = graph.edges
        /\ NewEdges = IF HasNode(graph, "Globex") THEN <<>>
                      ELSE <<<<"Acme", "Globex", "competes_with">>>>

\* no node is there twice, and there is one 'competes_with' edge
\* Acme -> Globex if the bootstrap created Globex, none otherwise, however
\* often the text is parsed
C13_OneEdge ==
    /\ NoDuplicates(graph.node)
    /\ CompetesCount(graph, "Acme", "Globex") =
          IF HasNode(graph, "Globex")
             /\ "is_competitor" \in DOMAIN graph.attr["Globex"]
          THEN 1 ELSE 0

\* C13: the parser bootstrap is idempotent over any sequence of parses
\* with the same two anchors: the anchors exist after the first call and
\* are never duplicated or re-created, a 'competes_with' edge
\* user_company -> competitor is inserted by a call if and only if the
\* competitor was no node when the call began, so from an empty graph
\* exactly one such edge is added however often the text is re-parsed.
C13_BootstrapIdempotent == [](C13_OneEdge) /\ [][C13_BootstrapStep]_vars

\* the second of two parses from the empty graph has returned, with one
\* 'competes_with' edge
C13_Witness ==
    /\ Idle /\ ret.op = "parse_entity_extraction" /\ ret.args[1] = ""
    /\ clock = 2
    /\ HasNode(graph, "Acme")
    /\ Get(graph.attr["Acme"], "added_at") = 0
    /\ "is_user_company" \in DOMAIN graph.attr["Acme"]
    /\ CompetesCount(graph, "Acme", "Globex") = 1

\* the products of a company: the product-typed targets of its edges
ProductsOf(g, company) ==
    {n \in SeqToSet(g.node) :
        /\ EntityType(g, n) = "product"
        /\ \E i \in 1..Len(g.edges) :
              g.edges[i].u = company /\ g.edges[i].v = n}

HasCategory(g, n) == "category" \in DOMAIN g.attr[n]

\* C14: find_competitive_threats(user, competitor) lists a pair
\* (user_product, competitor_product) in overlapping_products exactly when
\* both products have a 'category' attribute and the two values are
\* equal; a pair with a product that has no category is never listed.
C14_OverlapExactlyEqualCategories ==
    (ret.op = "find_competitive_threats" /\ ~ret.raised) =>
        {<<o.user_product, o.competitor_product>> :
              o \in ret.value.overlapping_products}
          = {pr \in ProductsOf(graph, ret.args[1]) \X ProductsOf(graph, ret.args[2]) :
                /\ HasCategory(graph, pr[1]) /\ HasCategory(graph, pr[2])
                /\ graph.attr[pr[1]]["category"] = graph.attr[pr[2]]["category"]}

\* the same for the pairs in which both products have a category
C14_CategorisedPairs ==
    (ret.op = "find_competitive_threats" /\ ~ret.raised) =>
        \A pr \in ProductsOf(graph, ret.args[1]) \X ProductsOf(graph, ret.args[2]) :
            (HasCategory(graph, pr[1]) /\ HasCategory(graph, pr[2])) =>
                ((\E o \in ret.value.overlapping_products :
                     <<o.user_product, o.competitor_product>> = pr)
                 <=> graph.attr[pr[1]]["category"] = graph.attr[pr[2]]["category"])

\* the lines a text puts under the markers of kind K, in the order read
RECURSIVE LinesOfKind(_, _)
LinesOfKind(blocks, K) ==
    IF blocks = <<>> THEN <<>>
    ELSE (IF Upper(Head(blocks).kind) = K THEN Head(blocks).lines ELSE <<>>)
            \o LinesOfKind(Tail(blocks), K)

\* the name a Companies or Markets line of the cases gives its entity
LineName(line) == Strip(Split(SubSeq(line, 3, Len(line)), ":", 1)[1])

\* the buffers hold every line read under a marker of their kind, every
\* such line has been processed when the parse returns, and a line read
\* before any marker never makes a node
C15_Case(case) ==
    /\ (parse.pc = "lines" /\ parse.text = TextOf(case)) =>
          \A K \in SectionKinds :
              LinesOfKind(case.blocks, K) # <<>> =>
                  /\ K \in DOMAIN parse.sections
                  /\ parse.sections[K] = LinesOfKind(case.blocks, K)
    /\ (Idle /\ ret.op = "parse_entity_extraction" /\ ret.args[1] = TextOf(case)) =>
          \A K \in {"COMPANIES", "MARKETS"} :
              \A i \in 1..Len(LinesOfKind(case.blocks, K)) :
                  HasNode(graph, LineName(LinesOfKind(case.blocks, K)[i]))
    /\ ~HasNode(graph, "Early")

\* C15: in the section splitter every non-marker line read while a
\* section of kind K is open reaches the buffer of K and is processed,
\* also when the text opens a section of kind K more than once; lines
\* read before any marker are discarded and change nothing.
C15_SplitterKeepsEveryLine == \A case \in SplitCases : C15_Case(case)

\* the same for the texts that open no kind twice with lines
C15_SingleOccurrence ==
    \A case \in SplitCases :
        (\A i, j \in 1..Len(case.blocks) :
            (Upper(case.blocks[i].kind) = Upper(case.blocks[j].kind)
               /\ case.blocks[i].lines # <<>> /\ case.blocks[j].lines # <<>>)
            => i = j)
        => C15_Case(case)

\* the edges 'operates_in' to Cloud from the named companies that are nodes
RECURSIVE LinksFrom(_, _)
LinksFrom(g, names) ==
    IF names = <<>> THEN <<>>
    ELSE (IF HasNode(g, Head(names))
          THEN <<<<Head(names), "Cloud", "operates_in">>>> ELSE <<>>)
            \o LinksFrom(g, Tail(names))

\* a Markets line that names companies links exactly those of them that
\* are nodes; a Markets line without a 'companies' key links both anchors
C16_LineStep(line_of, named) ==
    (parse.pc = "lines" /\ CurrentSection = "MARKETS") =>
        /\ \A names \in named :
              CurrentLine = line_of[names] =>
                  /\ SubSeq(graph'.edges, 1, Len(graph.edges)) = graph.edges
                  /\ NewEdges = LinksFrom(graph, names)
        /\ CurrentLine \in PlainMarketLines =>
              /\ SubSeq(graph'.edges, 1, Len(graph.edges)) = graph.edges
              /\ NewEdges = <<<<parse.user_company, "Cloud", "operates_in">>,
                              <<parse.competitor, "Cloud", "operates_in">>>>

\* C16: a Markets line whose attributes hold a 'companies' key written in
\* the line grammar ('- Cloud: companies=Acme') adds an 'operates_in'
\* edge to the market from each named company that is a node and from no
\* other; only a line without a 'companies' key links both user_company
\* and competitor.
C16_CompaniesKeyLinksNamed ==
    [][C16_LineStep([names \in {<<"Acme">>, <<"Zed">>} |-> KeyValueMarketLine(names)],
                    {<<"Acme">>, <<"Zed">>})]_vars

\* the same for a 'companies' item written as in a Python dict
C16_DictItemLinksNamed ==
    [][C16_LineStep([names \in CompaniesNamed |-> DictMarketLine(names)],
                    CompaniesNamed)]_vars

\* a People line without a company key makes the person work at the
\* anchor its text names, at `first` if it names both, and is skipped if
\* it names neither
C17_LineStep(first) ==
    (parse.pc = "lines" /\ CurrentSection = "PEOPLE") =>
        \A case \in PeopleCases :
            CurrentLine = case.line =>
                LET second == IF first = "user" THEN "competitor" ELSE "user"
                    anchor == [user |-> parse.user_company,
                               competitor |-> parse.competitor]
                    company == IF case[first] THEN anchor[first]
                               ELSE IF case[second] THEN anchor[second]
                               ELSE ""
                IN  IF company = ""
                    THEN /\ graph' = graph
                         /\ relationship_history' = relationship_history
                    ELSE /\ SubSeq(graph'.edges, 1, Len(graph.edges)) = graph.edges
                         /\ NewEdges = <<<<"Pat", company, "works_at">>>>
                         /\ HasNode(graph', "Pat")
                         /\ EntityType(graph', "Pat") = "person"

\* C17: a People line without a company key infers the company as a
\* Products line does, by case-insensitive substring match with the
\* competitor preferred over user_company: a text that names both makes
\* the person work at the competitor; the line is skipped only when
\* neither name occurs.
C17_PeoplePreferCompetitor == [][C17_LineStep("competitor")]_vars

\* C17 as amended: user_company is preferred over the competitor.
C17_PeoplePreferUser == [][C17_LineStep("user")]_vars

\* a line naming both anchors has made Pat work at Acme
C17_Witness ==
    /\ Idle /\ ret.op = "parse_entity_extraction"
    /\ ret.args[1] = "PEOPLE:\n- Pat: joined ACME from Globex"
    /\ \E i \in 1..Len(graph.edges) :
          EdgeTriple(graph.edges[i]) = <<"Pat", "Acme", "works_at">>

\* a Products line without a company key whose attribute text has at
\* least min_words words makes the product of the anchor it names, of the
\* competitor if it names both; any other is skipped
C18_LineStep(min_words) ==
    (parse.pc = "lines" /\ CurrentSection = "PRODUCTS") =>
        \A case \in ProductCases :
            CurrentLine = case.line =>
                LET company == IF case.words < min_words THEN ""
                               ELSE IF case.competitor THEN parse.competitor
                               ELSE IF case.user THEN parse.user_company
                               ELSE ""
                IN  IF company = ""
                    THEN /\ graph' = graph
                         /\ entity_attributes' = entity_attributes
                         /\ relationship_history' = relationship_history
                    ELSE /\ SubSeq(graph'.edges, 1, Len(graph.edges)) = graph.edges
                         /\ NewEdges = <<<<company, "Gadget", "produces">>>>
                         /\ HasNode(graph', "Gadget")
                         /\ EntityType(graph', "Gadget") = "product"

\* C18: a Products line without a company key creates the product, owned
\* by the inferred company, whenever its attribute text names the
\* competitor or user_company ignoring case (competitor first), whatever
\* the word count of the text; it is skipped, with no node and no edge,
\* only if neither name occurs.
C18_InferWhateverLength == [][C18_LineStep(0)]_vars

\* C18 as amended: the company is inferred only from an attribute text of
\* at least two words.
C18_InferFromTwoWords == [][C18_LineStep(2)]_vars

\* a line whose three-word text names globex has made Globex's product
C18_Witness ==
    /\ Idle /\ ret.op = "parse_entity_extraction"
    /\ ret.args[1] = "PRODUCTS:\n- Gadget: made by globex"
    /\ \E i \in 1..Len(graph.edges) :
          EdgeTriple(graph.edges[i]) = <<"Globex", "Gadget", "produces">>

\* a Companies line that names a node changes nothing
C19_LineStep ==
    (parse.pc = "lines" /\ CurrentSection = "COMPANIES") =>
        \A name \in SeqToSet(graph.node), attrs_str \in CompanyAttrTexts :
            CurrentLine = CompanyLine(name, attrs_str) =>
                /\ graph' = graph
                /\ entity_attributes' = entity_attributes
                /\ relationship_history' = relationship_history

\* the anchors have none of the attributes the Companies lines write
C19_AnchorsUntouched ==
    \A a \in {"Acme", "Globex"} :
        HasNode(graph, a) =>
            /\ DOMAIN graph.attr[a] \cap {"revenue", "hq"} = {}
            /\ a \in DOMAIN entity_attributes =>
                  DOMAIN entity_attributes[a] \cap {"revenue", "hq"} = {}

\* C19: the bootstrap creates both anchors before any section is
\* processed and a Companies line is skipped when its name is a node, so
\* a Companies line naming user_company or competitor never changes the
\* graph: after any parse the anchors hold none of the attributes written
\* for them in the Companies section, and no Companies line changes the
\* attributes of a node that already existed.
C19_CompaniesLineFrame == [](C19_AnchorsUntouched) /\ [][C19_LineStep]_vars

\* a parse of '- Acme: revenue=100' and '- Zed: revenue=100' has returned:
\* the new company Zed has the revenue, the anchor Acme has none
C19_Witness ==
    /\ Idle /\ ret.op = "parse_entity_extraction"
    /\ ret.args[1] = "COMPANIES:\n- Acme: revenue=100\n- Zed: revenue=100"
    /\ HasNode(graph, "Zed") /\ Get(graph.attr["Zed"], "revenue") = "100"
    /\ HasNode(graph, "Acme") /\ "revenue" \notin DOMAIN graph.attr["Acme"]

====
